---- MODULE Spec2Model ----
(***************************************************************************)
(* A state-machine model of kerchunk/cli/chunk_nc.py: the NetcdfChunker    *)
(* pipeline  get_uri_list -> scan_them_all -> consolidate,  run repeatedly *)
(* over an index store that persists between runs.                        *)
(*                                                                         *)
(* A path (pathlib.Path) is a record [abs, dir, name]: abs says whether it *)
(* is anchored at "/", dir is the sequence of directory components and     *)
(* name the file name as its sequence of dot-separated segments            *)
(* ("1.tar.gz" is <<"1","tar","gz">>); a directory has name = <<>>.        *)
(***************************************************************************)
EXTENDS Integers, Sequences, FiniteSets, TLC

VARIABLES
    taken,          \* the sources concurrent workers have taken up
    worker,         \* each concurrent worker: where it stands, on which source
    input,          \* self.input: the glob patterns given on the command line
    force_scan,     \* self.force_scan of the current run
    kind,           \* how each source behaves in the current run (the environment)
    status,         \* "idle" (no process) | "running" | "done" | "failed" | "interrupted"
    pc,             \* position of the run inside run()/scan_them_all()
    uri_list,       \* the list scan_them_all iterates over
    i,              \* index in uri_list of the source being processed
    files,          \* the file system: artifact path -> content
    dirs,           \* the file system: directories that exist
    handle,         \* the source the open handle fd belongs to, or NoUri
    json_data,      \* the in-memory index h5chunk.translate() returned
    opens,          \* sources fsspec.open was entered on in the current run
    written,        \* artifact paths json.dump completed on in the current run
    log,            \* the records the logger emitted in the current run
    exc,            \* the exception that ended the run, or "none"
    fp_json_list,   \* what consolidate handed to MultiZarrToZarr in this run
    store0,         \* files as they were when the current run started
    base,           \* files as they were when the chain of resumed runs started
    mode,           \* how the current run relates to the previous one
    last            \* how the previous process ended

vars == << taken, worker, input, force_scan, kind, status, pc, uri_list, i, files, dirs, handle,
           json_data, opens, written, log, exc, fp_json_list, store0, base, mode, last >>

\* The command line and the environment of a run; the bookkeeping across runs.
params == << input, force_scan, kind >>
history == << store0, base, mode, last >>
pool == << taken, worker >>

(***************************************************************************)
(* Bounds of the model.                                                    *)
(***************************************************************************)
MaxPatterns == 2    \* at most this many --input patterns
MaxBad == 1         \* at most this many sources misbehave in one run
MaxInputLen == 3    \* longest --input list the resolver is applied to on its own
MaxWorkers == 2     \* concurrent workers over one index store

(***************************************************************************)
(* pathlib                                                                 *)
(***************************************************************************)
Dir(a, d) == [abs |-> a, dir |-> d, name |-> <<>>]

File(a, d, n) == [abs |-> a, dir |-> d, name |-> n]

\* Path.__truediv__: an absolute right operand replaces the left one.
Join(p, q) ==
    IF q.abs THEN q
    ELSE [abs |-> p.abs, dir |-> p.dir \o q.dir, name |-> q.name]

\* Path.parent of a file path.
Parent(p) == Dir(p.abs, p.dir)

\* Path.suffix is non-empty: the last dot is neither the first nor the last
\* character of the name.
HasSuffix(n) ==
    /\ Len(n) >= 2
    /\ n[Len(n)] # ""
    /\ ~(Len(n) = 2 /\ n[1] = "")

\* Path.with_suffix(".json").name
WithSuffixJson(n) ==
    IF HasSuffix(n) THEN SubSeq(n, 1, Len(n) - 1) \o <<"json">>
    ELSE n \o <<"json">>

IsPrefix(s, t) == Len(s) <= Len(t) /\ SubSeq(t, 1, Len(s)) = s

\* p lies in the subtree of directory d.
IsUnder(p, d) == p.abs = d.abs /\ IsPrefix(d.dir, p.dir)

\* The directories mkdir(parents=True) makes sure exist: d and its ancestors.
Ancestors(d) == { Dir(d.abs, SubSeq(d.dir, 1, k)) : k \in 1..Len(d.dir) }

(***************************************************************************)
(* Configuration (class attributes) and the storage backend.               *)
(***************************************************************************)
dataset_name == "mydataset"

json_dir == Dir(FALSE, <<"json">>)

\* The value of the json_dataset_dir property (its mkdir is in the actions).
json_dataset_dir == Join(json_dir, Dir(FALSE, <<dataset_name>>))

\* Source URIs the backend holds, as fs.glob returns them.
UriA1h5 == File(FALSE, <<"a">>, <<"1", "h5">>)      \* a/1.h5
UriA1nc == File(FALSE, <<"a">>, <<"1", "nc">>)      \* a/1.nc
UriB2nc == File(FALSE, <<"b">>, <<"2", "nc">>)      \* b/2.nc
UriD3nc == File(TRUE, <<"d">>, <<"3", "nc">>)       \* /d/3.nc

\* The backend's URIs in the order Python's str comparison gives them
\* ("/" sorts before the letters).
UriOrder == << UriD3nc, UriA1h5, UriA1nc, UriB2nc >>

URIS == { UriOrder[k] : k \in 1..Len(UriOrder) }

NoUri == File(FALSE, <<>>, <<>>)

PATTERNS == { "a/*", "*/*.nc", "/d/*.nc", "none/*", "nope://x/*" }

\* url_to_fs / fs.glob raise for the pattern: its protocol is not known.
GlobFails(fs_glob) == fs_glob = "nope://x/*"

\* fs.glob(fs_glob): the listing of the backend for one pattern.
Glob(fs_glob) ==
    CASE fs_glob = "a/*" -> << UriA1h5, UriA1nc >>
      [] fs_glob = "*/*.nc" -> << UriA1nc, UriB2nc >>
      [] fs_glob = "/d/*.nc" -> << UriD3nc >>
      [] OTHER -> << >>

\* The characters of one path component, as code points.
Chars(tok) ==
    CASE tok = "a" -> << 97 >>
      [] tok = "b" -> << 98 >>
      [] tok = "d" -> << 100 >>
      [] tok = "1" -> << 49 >>
      [] tok = "2" -> << 50 >>
      [] tok = "3" -> << 51 >>
      [] tok = "nc" -> << 110, 99 >>
      [] tok = "h5" -> << 104, 53 >>
      [] OTHER -> << >>

RECURSIVE JoinChars(_, _)
\* sep.join(toks), as code points.
JoinChars(toks, sep) ==
    IF toks = << >> THEN << >>
    ELSE IF Len(toks) = 1 THEN Chars(toks[1])
    ELSE Chars(toks[1]) \o << sep >> \o JoinChars(Tail(toks), sep)

\* The string input_uri of a URI: "/" is 47 and "." is 46.
Text(u) ==
    (IF u.abs THEN << 47 >> ELSE << >>)
        \o JoinChars(u.dir, 47)
        \o (IF u.dir = << >> THEN << >> ELSE << 47 >>)
        \o JoinChars(u.name, 46)

RECURSIVE StrLess(_, _)
\* Python's s < t on strings: lexicographic on code points.
StrLess(s, t) ==
    IF t = << >> THEN FALSE
    ELSE IF s = << >> THEN TRUE
    ELSE IF Head(s) # Head(t) THEN Head(s) < Head(t)
    ELSE StrLess(Tail(s), Tail(t))

RECURSIVE AppendAll(_)
\* The loop of get_uri_list: _uri_list after every pattern was expanded.
AppendAll(patterns) ==
    IF patterns = << >> THEN << >>
    ELSE Glob(Head(patterns)) \o AppendAll(Tail(patterns))

ToSet(s) == { s[k] : k \in 1..Len(s) }

\* sorted(S) for a set of URIs.
Sorted(S) == SelectSeq(UriOrder, LAMBDA u : u \in S)

RECURSIVE Dedup(_)
\* The list without its repeats, each element where it first stands.
Dedup(l) ==
    IF l = << >> THEN << >>
    ELSE LET r == Dedup(SubSeq(l, 1, Len(l) - 1)) IN
         IF l[Len(l)] \in ToSet(r) THEN r ELSE Append(r, l[Len(l)])

\* get_uri_list without the sorted() of line 48: the list in expansion order.
get_uri_list_unsorted(patterns) == Dedup(AppendAll(patterns))

get_uri_list(patterns) == Sorted(ToSet(AppendAll(patterns)))

(***************************************************************************)
(* The per-source artifact path and file contents.                         *)
(***************************************************************************)
fp_json(fp) ==
    Join(Join(json_dataset_dir, Dir(fp.abs, fp.dir)),
         File(FALSE, <<>>, WithSuffixJson(fp.name)))

ArtifactPaths == { fp_json(u) : u \in URIS }

Absent == [st |-> "absent", src |-> NoUri]
Partial == [st |-> "partial", src |-> NoUri]
Complete(u) == [st |-> "complete", src |-> u]

Exists(store, p) == store[p].st # "absent"

\* Path.glob("*.json"): the pattern without "**/" lists d itself only.
GlobJsonFlat(store, d) ==
    { p \in DOMAIN store :
        /\ Exists(store, p)
        /\ Parent(p) = d
        /\ p.name[Len(p.name)] = "json" }

\* Path.glob("**/*.json") under directory d.
GlobJson(store, d) ==
    { p \in DOMAIN store :
        /\ Exists(store, p)
        /\ IsUnder(p, d)
        /\ p.name[Len(p.name)] = "json" }

(***************************************************************************)
(* The environment: how a source behaves when opened and indexed.          *)
(*   "ok"      indexing succeeds                                           *)
(*   "corrupt" SingleHdf5ToZarr/translate raises OSError                   *)
(*   "noopen"  entering fsspec.open raises OSError                         *)
(*   "bug"     SingleHdf5ToZarr/translate raises a non-OSError exception   *)
(***************************************************************************)
KINDS == { "ok", "corrupt", "noopen", "bug" }

AllOk == [u \in URIS |-> "ok"]

Corpus == ToSet(get_uri_list(input))

\* The behaviours a run may meet: at most MaxBad sources of the corpus misbehave.
KindChoices ==
    { [u \in URIS |-> IF u \in DOMAIN b THEN b[u] ELSE "ok"] :
        b \in UNION { [B -> KINDS \ {"ok"}] :
                        B \in { C \in SUBSET Corpus : Cardinality(C) <= MaxBad } } }

\* The behaviours with a fault of the write: indexing the source succeeds and
\* json.dump raises on its index ("nowrite").
WriteFaultChoices == { [AllOk EXCEPT ![u] = "nowrite"] : u \in Corpus }

PatternOrder == << "a/*", "*/*.nc", "/d/*.nc", "none/*", "nope://x/*" >>

\* The command lines considered: up to MaxPatterns distinct patterns.
Inputs ==
    { SelectSeq(PatternOrder, LAMBDA g : g \in S) :
        S \in { T \in SUBSET PATTERNS : Cardinality(T) <= MaxPatterns } }

RECURSIVE scan_them_all(_, _, _, _)
\* scan_them_all lines 50-71 run without interruption over the list uris, from
\* the store given: the store it leaves, whether it returns or an exception
\* ends it.
scan_them_all(store, uris, k, force) ==
    IF uris = << >> THEN store
    ELSE LET fp == Head(uris) IN
         IF store[fp_json(fp)].st # "absent" /\ ~force
         THEN scan_them_all(store, Tail(uris), k, force)
         ELSE CASE k[fp] = "ok" ->
                     scan_them_all([store EXCEPT ![fp_json(fp)] = Complete(fp)],
                                   Tail(uris), k, force)
                [] k[fp] = "corrupt" -> scan_them_all(store, Tail(uris), k, force)
                [] k[fp] = "nowrite" -> [store EXCEPT ![fp_json(fp)] = Partial]
                [] OTHER -> store

Entry(level, what, u) == [level |-> level, what |-> what, uri |-> u]

NotCalled == [called |-> FALSE, list |-> {}, result |-> "none"]

\* MultiZarrToZarr(fp_json_list, ...).translate(...): what the merge of the listed
\* artifacts comes to. With no artifact it reports an empty result and does not
\* fail.
MultiZarrToZarr(list) == IF list = {} THEN "empty" ELSE "merged"

EmptyStore == [p \in ArtifactPaths |-> Absent]

(***************************************************************************)
(* Init: no process yet, an empty index store.                             *)
(***************************************************************************)
Workers == 1..MaxWorkers

\* A worker between two sources, and one on source fp at position at.
Resting == [at |-> "rest", fp |-> NoUri, exc |-> "none"]
Busy(at, fp) == [at |-> at, fp |-> fp, exc |-> "none"]
Dead(at, fp, e) == [at |-> at, fp |-> fp, exc |-> e]

Fresh ==
    /\ taken = {}
    /\ worker = [w \in Workers |-> Resting]
    /\ force_scan = FALSE
    /\ kind = AllOk
    /\ status = "idle"
    /\ pc = "end"
    /\ uri_list = << >>
    /\ i = 1
    /\ files = EmptyStore
    /\ dirs = {}
    /\ handle = NoUri
    /\ json_data = NoUri
    /\ opens = {}
    /\ written = {}
    /\ log = << >>
    /\ exc = "none"
    /\ fp_json_list = NotCalled
    /\ store0 = EmptyStore
    /\ base = EmptyStore
    /\ mode = "fresh"
    /\ last = "none"

Init == input \in Inputs /\ Fresh

\* How a run started with force f and behaviours k relates to the previous one:
\* "repeat" follows a run whose scan_them_all returned, "resume" follows a run
\* interrupted between two sources; both with force_scan false and with the
\* sources behaving as before. Any other run is "fresh".
RunMode(f, k) ==
    IF f \/ k # kind THEN "fresh"
    ELSE IF last = "cut" THEN "resume"
    ELSE IF last = "scanned" THEN "repeat"
    ELSE "fresh"

\* cli(): a new process constructs NetcdfChunker(**kwargs) and calls run().
StartRun(f, k) ==
    /\ status = "idle"
    /\ force_scan' = f
    /\ kind' = k
    /\ status' = "running"
    /\ pc' = "resolve"
    /\ store0' = files
    /\ mode' = RunMode(f, k)
    /\ base' = IF mode' = "resume" THEN base ELSE files
    /\ last' = "none"
    /\ UNCHANGED << input, pool, uri_list, i, files, dirs, handle, json_data, opens, written,
                    log, exc, fp_json_list >>

\* Resolve with the expansion of a pattern wrapped in try/except: pass.
ResolveSwallowsErrors ==
    /\ status = "running"
    /\ pc = "resolve"
    /\ uri_list' = get_uri_list(input)
    /\ i' = 1
    /\ pc' = IF uri_list' = << >> THEN "consolidate" ELSE "scan"
    /\ UNCHANGED << params, history, pool, status, files, dirs, handle, json_data,
                    opens, written, log, exc, fp_json_list >>

\* run() line 37 and scan_them_all line 52: the patterns are resolved; an
\* exception of url_to_fs or fs.glob leaves get_uri_list and run().
Resolve ==
    /\ status = "running"
    /\ pc = "resolve"
    /\ i' = 1
    /\ IF \E k \in 1..Len(input) : GlobFails(input[k])
       THEN /\ status' = "failed"
            /\ exc' = "ValueError"
            /\ UNCHANGED << pc, uri_list >>
       ELSE /\ uri_list' = get_uri_list(input)
            /\ pc' = IF uri_list' = << >> THEN "consolidate" ELSE "scan"
            /\ UNCHANGED << status, exc >>
    /\ UNCHANGED << params, history, pool, files, dirs, handle, json_data,
                    opens, written, log, fp_json_list >>

\* NextSource with `break` where the loop goes on: the loop is left.
NextSourceBreak ==
    /\ i' = i + 1
    /\ pc' = "consolidate"

\* `continue` / the end of the loop body: on to the next source.
NextSource ==
    /\ i' = i + 1
    /\ pc' = IF i + 1 > Len(uri_list) THEN "consolidate" ELSE "scan"

\* Line 56 with its `not` dropped: `fp_json.exists() and self.force_scan`.
CacheHitNoNot(store, fp, force) == Exists(store, fp_json(fp)) /\ force

\* Line 56 without the force_scan test: `fp_json.exists()`.
CacheHitIgnoresForce(store, fp, force) == Exists(store, fp_json(fp))

\* Line 56 testing the directory line 54 has just made, `fp_json.parent.exists()`.
CacheHitParentExists(store, fp, force) == Parent(fp_json(fp)) \in dirs' /\ ~force

\* The condition of line 56.
CacheHit(store, fp, force) == Exists(store, fp_json(fp)) /\ ~force

\* ScanCheck with the `continue` of line 58 forgotten: the skip is logged and the
\* source is scanned all the same.
ScanCheckNoContinue ==
    /\ status = "running"
    /\ pc = "scan"
    /\ LET fp == uri_list[i] IN
        /\ dirs' = dirs \cup Ancestors(json_dataset_dir) \cup Ancestors(Parent(fp_json(fp)))
        /\ log' = Append(log, Entry("info",
                     IF CacheHit(files, fp, force_scan) THEN "skipping" ELSE "scanning", fp))
        /\ pc' = "open"
        /\ i' = i
    /\ UNCHANGED << params, history, pool, status, uri_list, files, handle, json_data,
                    opens, written, exc, fp_json_list >>

\* scan_them_all lines 53-60: derive the path, make the directories, test the cache.
ScanCheck ==
    /\ status = "running"
    /\ pc = "scan"
    /\ LET fp == uri_list[i] IN
        /\ dirs' = dirs \cup Ancestors(json_dataset_dir) \cup Ancestors(Parent(fp_json(fp)))
        /\ IF CacheHit(files, fp, force_scan)
           THEN /\ log' = Append(log, Entry("info", "skipping", fp))
                /\ NextSource
           ELSE /\ log' = Append(log, Entry("info", "scanning", fp))
                /\ pc' = "open"
                /\ i' = i
    /\ UNCHANGED << params, history, pool, status, uri_list, files, handle, json_data,
                    opens, written, exc, fp_json_list >>

\* scan_them_all line 61: the with statement enters fsspec.open, outside the try.
OpenSource ==
    /\ status = "running"
    /\ pc = "open"
    /\ LET fp == uri_list[i] IN
        /\ opens' = opens \cup {fp}
        /\ IF kind[fp] = "noopen"
           THEN /\ status' = "failed"
                /\ exc' = "OSError"
                /\ UNCHANGED << pc, handle >>
           ELSE /\ handle' = fp
                /\ pc' = "translate"
                /\ UNCHANGED << status, exc >>
    /\ UNCHANGED << params, history, pool, uri_list, i, files, dirs, json_data,
                    written, log, fp_json_list >>

\* Translate with `except Exception` in place of `except OSError` on line 65.
TranslateCatchAll ==
    /\ status = "running"
    /\ pc = "translate"
    /\ LET fp == uri_list[i] IN
        /\ handle' = NoUri
        /\ IF kind[fp] \in {"corrupt", "bug"}
           THEN /\ log' = Append(log, Entry("error", "oserror", fp))
                /\ NextSource
                /\ UNCHANGED << status, exc, json_data >>
           ELSE /\ json_data' = fp
                /\ pc' = "save"
                /\ UNCHANGED << status, exc, i, log >>
    /\ UNCHANGED << params, history, pool, uri_list, files, dirs, opens, written, fp_json_list >>

\* Translate with the source closed by hand after a translate that returned, in
\* place of the with block: an exception leaves the handle open.
TranslateLeaksOnError ==
    /\ status = "running"
    /\ pc = "translate"
    /\ LET fp == uri_list[i] IN
        CASE kind[fp] = "corrupt" ->
                  /\ log' = Append(log, Entry("error", "oserror", fp))
                  /\ NextSource
                  /\ UNCHANGED << status, exc, json_data, handle >>
             [] kind[fp] = "bug" ->
                  /\ status' = "failed"
                  /\ exc' = "Exception"
                  /\ UNCHANGED << pc, i, log, json_data, handle >>
             [] OTHER ->
                  /\ handle' = NoUri
                  /\ json_data' = fp
                  /\ pc' = "save"
                  /\ UNCHANGED << status, exc, i, log >>
    /\ UNCHANGED << params, history, pool, uri_list, files, dirs, opens, written, fp_json_list >>

\* scan_them_all lines 62-67: index the open source; the with block is left.
Translate ==
    /\ status = "running"
    /\ pc = "translate"
    /\ LET fp == uri_list[i] IN
        /\ handle' = NoUri
        /\ CASE kind[fp] = "corrupt" ->
                  /\ log' = Append(log, Entry("error", "oserror", fp))
                  /\ NextSource
                  /\ UNCHANGED << status, exc, json_data >>
             [] kind[fp] = "bug" ->
                  /\ status' = "failed"
                  /\ exc' = "Exception"
                  /\ UNCHANGED << pc, i, log, json_data >>
             [] OTHER ->
                  /\ json_data' = fp
                  /\ pc' = "save"
                  /\ UNCHANGED << status, exc, i, log >>
    /\ UNCHANGED << params, history, pool, uri_list, files, dirs, opens, written, fp_json_list >>

\* scan_them_all lines 69-70: fp_json.open("w") creates or truncates the file.
SaveOpen ==
    /\ status = "running"
    /\ pc = "save"
    /\ LET fp == uri_list[i] IN
        /\ log' = Append(log, Entry("info", "saving", fp))
        /\ files' = [files EXCEPT ![fp_json(fp)] = Partial]
    /\ pc' = "dump"
    /\ UNCHANGED << params, history, pool, status, uri_list, i, dirs, handle, json_data,
                    opens, written, exc, fp_json_list >>

\* scan_them_all line 71: json.dump writes the whole document and the file is
\* closed; or json.dump raises, the file is closed as it stands and the exception
\* leaves run().
JsonDump ==
    /\ status = "running"
    /\ pc = "dump"
    /\ LET fp == uri_list[i] IN
        IF kind[fp] = "nowrite"
        THEN /\ status' = "failed"
             /\ exc' = "TypeError"
             /\ UNCHANGED << files, written, json_data, pc, i >>
        ELSE /\ files' = [files EXCEPT ![fp_json(fp)] = Complete(json_data)]
             /\ written' = written \cup {fp_json(fp)}
             /\ json_data' = NoUri
             /\ NextSource
             /\ UNCHANGED << status, exc >>
    /\ UNCHANGED << params, history, pool, uri_list, dirs, handle,
                    opens, log, fp_json_list >>

\* Consolidate looking into the first artifact of the list before the merge,
\* fp_json_list[0]: IndexError when the list is empty.
ConsolidateFirstArtifact ==
    /\ status = "running"
    /\ pc = "consolidate"
    /\ dirs' = dirs \cup Ancestors(json_dataset_dir)
    /\ LET list == GlobJson(files, json_dataset_dir) IN
        IF list = {}
        THEN /\ fp_json_list' = [called |-> TRUE, list |-> list, result |-> "none"]
             /\ status' = "failed"
             /\ exc' = "IndexError"
             /\ UNCHANGED << log, pc >>
        ELSE /\ fp_json_list' = [called |-> TRUE, list |-> list,
                                 result |-> MultiZarrToZarr(list)]
             /\ log' = Append(log, Entry("info", "consolidating", NoUri))
             /\ status' = "done"
             /\ pc' = "end"
             /\ exc' = exc
    /\ UNCHANGED << params, history, pool, uri_list, i, files, handle, json_data,
                    opens, written >>

\* consolidate lines 73-83: list the namespace, log how many artifacts were found,
\* hand the list to MultiZarrToZarr and translate.
\* The list is kept as a set: the order Path.glob yields is the file system's.
Consolidate ==
    /\ status = "running"
    /\ pc = "consolidate"
    /\ dirs' = dirs \cup Ancestors(json_dataset_dir)
    /\ LET list == GlobJson(files, json_dataset_dir) IN
        fp_json_list' = [called |-> TRUE, list |-> list, result |-> MultiZarrToZarr(list)]
    /\ log' = Append(log, Entry("info", "consolidating", NoUri))
    /\ status' = "done"
    /\ pc' = "end"
    /\ UNCHANGED << params, history, pool, uri_list, i, files, handle, json_data,
                    opens, written, exc >>

\* The process is interrupted (KeyboardInterrupt, kill) wherever it stands; the
\* with block releases the handle and nothing on disk is undone.
Interrupt ==
    /\ status = "running"
    /\ status' = "interrupted"
    /\ exc' = "KeyboardInterrupt"
    /\ handle' = NoUri
    /\ UNCHANGED << params, history, pool, pc, uri_list, i, files, dirs, json_data,
                    opens, written, log, fp_json_list >>

\* How the process that is ending got on, for the run that follows: without
\* force_scan, scan_them_all returned ("scanned") or the run was interrupted at
\* the head of the loop, between two sources ("cut"); "other" in every other case.
Ending ==
    IF force_scan THEN "other"
    ELSE IF pc \in {"consolidate", "end"} THEN "scanned"
    ELSE IF status = "interrupted" /\ pc = "scan" THEN "cut"
    ELSE "other"

\* The process exits: its memory is gone, the file system stays.
Exit ==
    /\ status \in {"done", "failed", "interrupted"}
    /\ status' = "idle"
    /\ last' = Ending
    /\ pc' = "end"
    /\ uri_list' = << >>
    /\ i' = 1
    /\ handle' = NoUri
    /\ json_data' = NoUri
    /\ opens' = {}
    /\ written' = {}
    /\ log' = << >>
    /\ exc' = "none"
    /\ fp_json_list' = NotCalled
    /\ store0' = files
    /\ mode' = "fresh"
    /\ base' = IF last' = "cut" THEN base ELSE files
    /\ kind' = IF last' = "other" THEN AllOk ELSE kind
    /\ force_scan' = FALSE
    /\ UNCHANGED << input, pool, files, dirs >>

Next ==
    \/ \E f \in BOOLEAN, k \in KindChoices : StartRun(f, k)
    \/ Resolve
    \/ ScanCheck
    \/ OpenSource
    \/ Translate
    \/ SaveOpen
    \/ JsonDump
    \/ Consolidate
    \/ Interrupt
    \/ Exit

Spec == Init /\ [][Next]_vars

\* The runs of Spec and the runs in which the write of an index fails.
WriteFaultNext ==
    \/ \E f \in BOOLEAN, k \in KindChoices \cup WriteFaultChoices : StartRun(f, k)
    \/ Resolve
    \/ ScanCheck
    \/ OpenSource
    \/ Translate
    \/ SaveOpen
    \/ JsonDump
    \/ Consolidate
    \/ Interrupt
    \/ Exit

WriteFaultSpec == Init /\ [][WriteFaultNext]_vars

(***************************************************************************)
(* Properties.                                                             *)
(***************************************************************************)
\* get_uri_list has returned and the run has gone no further.
JustResolved == status = "running" /\ pc \in {"scan", "consolidate"} /\ i = 1 /\ log = << >>

Errors(l) == { j \in 1..Len(l) : l[j].level = "error" }

Skipped == { log[j].uri : j \in { k \in 1..Len(log) : log[k].what = "skipping" } }

\* The run stands at the head of the loop on a source whose artifact exists,
\* without force_scan.
AtCacheHit ==
    /\ status = "running"
    /\ pc = "scan"
    /\ Exists(files, fp_json(uri_list[i]))
    /\ ~force_scan

\* A source the run skipped was not opened, and its skip line is the only line
\* the log holds about it.
SkippedUntouched ==
    \A j \in 1..Len(log) :
        log[j].what = "skipping" =>
            /\ log[j].uri \notin opens
            /\ handle # log[j].uri
            /\ \A k \in 1..Len(log) : log[k].uri = log[j].uri => k = j
            /\ \A k \in (j + 1)..Len(log) :
                   log[k].what = "saving" => fp_json(log[k].uri) # fp_json(log[j].uri)

\* The step taken from a cache hit changes no file, opens nothing, logs no error
\* and, unless the process is interrupted, moves on to the next source.
SkipStep ==
    AtCacheHit =>
        /\ files' = files
        /\ opens' = opens
        /\ handle' = handle
        /\ Errors(log') = Errors(log)
        /\ status' = "running" =>
              /\ i' = i + 1
              /\ pc' \in {"scan", "consolidate"}
              /\ log' = Append(log, Entry("info", "skipping", uri_list[i]))

\* C1: cache hit is a pure skip. For every resolved source whose artifact exists
\* when the source is processed and force_scan is false, the source is neither
\* opened nor read, the artifact is left as it is and no error is logged for it.
C1_CacheHitPureSkip == [][SkipStep]_vars /\ []SkippedUntouched

\* A run has ended with a source skipped on a cache hit and an artifact in place.
C1_Witness ==
    /\ status = "done"
    /\ \E u \in Skipped : files[fp_json(u)].st = "complete"

(***************************************************************************)
(* Idempotence of the indexing phase.                                      *)
(***************************************************************************)
Resolved == ToSet(uri_list)

\* C2 as stated: running scan_them_all twice in a row with force_scan false over
\* the unchanged corpus leaves every artifact as the first run left it and
\* opens no source during the second run.
C2_Original == mode = "repeat" => (files = store0 /\ opens = {})

\* C2 amended: the second run leaves every artifact as the first run left it and
\* opens no source whose artifact exists; the sources it opens are those whose
\* indexing raised an I/O error in the first run, which have no artifact and
\* raise again.
C2_Idempotent ==
    mode = "repeat" =>
        /\ files = store0
        /\ written = {}
        /\ \A u \in opens : ~Exists(store0, fp_json(u)) /\ kind[u] = "corrupt"

\* A second run has ended that skipped a source and opened a corrupt one again.
C2_Witness ==
    /\ mode = "repeat"
    /\ status = "done"
    /\ Skipped # {}
    /\ opens # {}

(***************************************************************************)
(* Failures of one source.                                                 *)
(***************************************************************************)
\* C3: an I/O-class error (OSError) raised by opening or by indexing a source is
\* logged and the source skipped; no OSError of a source ends the run.
C3_IOErrorContained == ~(status = "failed" /\ exc = "OSError")

\* The artifacts the file system holds.
Present == { p \in ArtifactPaths : files[p].st # "absent" }

\* C4: from an empty index store, a run over N sources of which exactly one is
\* corrupt ends with one artifact for each of the other N-1 sources, one error
\* log entry, and consolidation invoked over those artifacts.
C4_PartialFailureOutcome ==
    ( /\ status = "done"
      /\ store0 = EmptyStore
      /\ Cardinality({ u \in Resolved : kind[u] = "corrupt" }) = 1
      /\ \A u \in Resolved : kind[u] \in {"ok", "corrupt"} )
    => /\ Cardinality(Present) = Len(uri_list) - 1
       /\ Cardinality(Errors(log)) = 1
       /\ fp_json_list.called
       /\ fp_json_list.list = Present

\* scan_them_all has returned in the current process.
ScanReturned == status # "idle" /\ pc \in {"consolidate", "end"}

\* C5 as stated: a run with force_scan opens every resolved source and rewrites
\* every resolved source's artifact; no complete artifact of a resolved source
\* keeps content from an earlier run.
C5_Original ==
    (force_scan /\ ScanReturned) =>
        \A u \in Resolved :
            /\ u \in opens
            /\ files[fp_json(u)].st = "complete" => fp_json(u) \in written

\* C5 amended: a run with force_scan whose scan_them_all returns opens every
\* resolved source and rewrites the artifact of every source whose indexing
\* succeeds, present or not; an artifact that is not rewritten belongs to a
\* source whose indexing raised an I/O error, and is as it was before the run.
C5_ForceRewrites ==
    (force_scan /\ ScanReturned) =>
        \A u \in Resolved :
            /\ u \in opens
            /\ kind[u] = "ok" =>
                  /\ fp_json(u) \in written
                  /\ files[fp_json(u)].st = "complete"
            /\ fp_json(u) \notin written =>
                  /\ kind[u] = "corrupt"
                  /\ files[fp_json(u)] = store0[fp_json(u)]

\* A forced run has rewritten an artifact that was already there.
C5_Witness ==
    /\ force_scan
    /\ status = "done"
    /\ \E u \in Resolved : Exists(store0, fp_json(u)) /\ fp_json(u) \in written

(***************************************************************************)
(* Interrupted writes and interrupted runs.                                *)
(***************************************************************************)
\* C6: no half-written artifact is accepted as complete. A file at an artifact
\* path holds a complete index unless it is being written at this moment, and a
\* cache hit is taken on complete artifacts only.
C6_NoHalfWritten ==
    /\ \A p \in ArtifactPaths :
          files[p].st = "partial" =>
              status = "running" /\ pc = "dump" /\ p = fp_json(uri_list[i])
    /\ \A u \in Skipped : files[fp_json(u)].st = "complete"

\* C7: a run interrupted between two sources and run again with the same
\* parameters and force_scan false opens only the sources that had no artifact
\* yet, and leaves the index store an uninterrupted run would have left.
C7_ResumeEqualsUninterrupted ==
    mode = "resume" =>
        /\ \A u \in opens : ~Exists(store0, fp_json(u))
        /\ status \in {"done", "failed"} =>
              files = scan_them_all(base, uri_list, kind, FALSE)

\* A resumed run has ended: it skipped what the interrupted run had written and
\* wrote the rest.
C7_Witness ==
    /\ mode = "resume"
    /\ status = "done"
    /\ \E u \in Skipped : Exists(store0, fp_json(u)) /\ ~Exists(base, fp_json(u))
    /\ written # {}

(***************************************************************************)
(* Where artifacts are written.                                            *)
(***************************************************************************)
\* The sources the loop of scan_them_all has reached in the current run.
Reached == { log[j].uri : j \in { k \in 1..Len(log) : log[k].what \in {"skipping", "scanning"} } }

\* C8: the artifact path derived for a resolved source lies under
\* {json_dir}/{dataset_name}/, mirrors the directory of the source and ends in
\* .json, and no artifact is written outside that subtree.
C8_ArtifactsInNamespace ==
    /\ \A u \in Reached :
          /\ IsUnder(fp_json(u), json_dataset_dir)
          /\ fp_json(u).dir = json_dataset_dir.dir \o u.dir
          /\ fp_json(u).name[Len(fp_json(u).name)] = "json"
    /\ \A p \in Present : IsUnder(p, json_dataset_dir)

(***************************************************************************)
(* Fatal errors.                                                           *)
(***************************************************************************)
\* C9: an error of indexing that is not I/O-class ends the run: the run never
\* gets past the source that raised it, no later source is processed and
\* consolidate is not invoked.
C9_NonIOFatal ==
    /\ \A u \in opens :
          kind[u] = "bug" =>
              /\ u = uri_list[i]
              /\ pc = "translate"
              /\ status # "done"
    /\ (status = "failed" /\ exc = "Exception") =>
          /\ kind[uri_list[i]] = "bug"
          /\ ~fp_json_list.called
          /\ handle = NoUri
          /\ \A j \in (i + 1)..Len(uri_list) :
                /\ uri_list[j] \notin opens
                /\ \A k \in 1..Len(log) : log[k].uri # uri_list[j]

\* A run has failed on a non-I/O error with sources left unprocessed.
C9_Witness ==
    /\ status = "failed"
    /\ exc = "Exception"
    /\ i < Len(uri_list)

(***************************************************************************)
(* Consolidation.                                                          *)
(***************************************************************************)
\* C10: the list consolidate hands to MultiZarrToZarr is the set of .json
\* artifacts under the dataset namespace at that moment, all of them and
\* nothing else, whichever run wrote them.
C10_ConsolidationInput ==
    fp_json_list.called =>
        fp_json_list.list =
            { p \in ArtifactPaths :
                /\ files[p].st # "absent"
                /\ ~p.abs
                /\ IsPrefix(<<"json", "mydataset">>, p.dir) }

\* Consolidation has run over an artifact of this run and one of an earlier run.
C10_Witness ==
    /\ fp_json_list.called
    /\ \E p \in fp_json_list.list : p \in written
    /\ \E p \in fp_json_list.list : p \notin written

C13_ResolutionErrorAborts ==
    /\ (status # "idle" /\ \E k \in 1..Len(input) : GlobFails(input[k])) =>
          /\ status # "done"
          /\ pc = "resolve"
          /\ opens = {}
          /\ handle = NoUri
          /\ written = {}
          /\ files = store0
          /\ log = << >>
          /\ ~fp_json_list.called
    /\ (status = "failed" /\ pc = "resolve") =>
          \E k \in 1..Len(input) : GlobFails(input[k])
    /\ (JustResolved /\ \A k \in 1..Len(input) : Glob(input[k]) = << >>) =>
          uri_list = << >>

\* A run has failed in get_uri_list on a pattern that stands behind a pattern
\* with sources.
C13_Witness ==
    /\ status = "failed"
    /\ pc = "resolve"
    /\ exc = "ValueError"
    /\ \E k \in 1..Len(input) : Glob(input[k]) # << >>

(***************************************************************************)
(* Artifact paths of distinct sources.                                     *)
(***************************************************************************)
\* C14: two distinct sources the loop has reached have distinct artifact paths.
C14_PathsNeverCollide ==
    \A u, v \in Reached : u # v => fp_json(u) # fp_json(v)

(***************************************************************************)
(* The store after a failure.                                              *)
(***************************************************************************)
\* C16: when a run has ended, failed or not, every artifact is either one a unit
\* of this run wrote completely or what it was before the run: a unit that
\* failed created and modified nothing.
C16_FailedUnitLeavesStore ==
    status \in {"done", "failed"} =>
        \A p \in ArtifactPaths :
            IF p \in written THEN files[p].st = "complete" ELSE files[p] = store0[p]

(***************************************************************************)
(* The source handle.                                                      *)
(***************************************************************************)
\* C17: a source handle is open only while the running process indexes that
\* source: it is released when the unit ends, however it ends, before the next
\* source is opened; none is open once run() has returned or aborted.
C17_HandleScoped ==
    /\ handle # NoUri =>
          /\ status = "running"
          /\ pc = "translate"
          /\ handle = uri_list[i]
    /\ (status = "running" /\ pc \in {"scan", "open"}) => handle = NoUri
    /\ status \in {"done", "failed", "interrupted", "idle"} => handle = NoUri

\* A run has ended after a unit that failed with a logged I/O error and a unit
\* that succeeded, both on a source that had been opened.
C17_Witness ==
    /\ status = "done"
    /\ handle = NoUri
    /\ \E j \in Errors(log) : log[j].uri \in opens
    /\ \E u \in opens : fp_json(u) \in written

(***************************************************************************)
(* Pipeline ordering.                                                      *)
(***************************************************************************)
Consolidations == { j \in 1..Len(log) : log[j].what = "consolidating" }

\* The loop of scan_them_all is through with source u: skipped, written, or
\* failed with a logged I/O error.
Handled(u) ==
    \E j \in 1..Len(log) :
        /\ log[j].uri = u
        /\ \/ log[j].what \in {"skipping", "oserror"}
           \/ log[j].what = "saving" /\ fp_json(u) \in written

\* C18: consolidation is invoked once in a run that does not abort, not at all
\* in another, and only after every resolved source has been handled.
C18_ConsolidateOnceAfterAll ==
    /\ Cardinality(Consolidations) = IF fp_json_list.called THEN 1 ELSE 0
    /\ status = "done" => fp_json_list.called
    /\ fp_json_list.called =>
          /\ status = "done"
          /\ i = Len(uri_list) + 1
          /\ \A u \in Resolved : Handled(u)
    /\ (status = "running" /\ pc = "consolidate") => \A u \in Resolved : Handled(u)

\* A run in which every source was a cache hit has consolidated.
C18_Witness ==
    /\ status = "done"
    /\ fp_json_list.called
    /\ Len(uri_list) >= 2
    /\ Skipped = Resolved
    /\ opens = {}

(***************************************************************************)
(* The resolver on its own: get_uri_list applied to every list of at most  *)
(* MaxInputLen patterns, repeats and every order included.                 *)
(***************************************************************************)
ResolverInputs == UNION { [1..n -> PATTERNS] : n \in 0..MaxInputLen }

ResolverInit == input \in ResolverInputs /\ Fresh

ResolverNext ==
    \/ \E f \in BOOLEAN : StartRun(f, AllOk)
    \/ Resolve

ResolverSpec == ResolverInit /\ [][ResolverNext]_vars

\* The lists that hold the elements of s as often as s does, in any order.
Reorderings(s) ==
    { q \in [1..Len(s) -> ToSet(s)] :
        \A x \in ToSet(s) :
            Cardinality({ k \in 1..Len(s) : q[k] = x })
                = Cardinality({ k \in 1..Len(s) : s[k] = x }) }

\* C11: get_uri_list returns a duplicate-free list in lexicographic order of the
\* URI strings that holds the URIs of every pattern's expansion and no other,
\* and the same list for every permutation of the patterns.
C11_ResolverDeterministic ==
    JustResolved =>
        /\ \A j \in 1..(Len(uri_list) - 1) :
              StrLess(Text(uri_list[j]), Text(uri_list[j + 1]))
        /\ ToSet(uri_list) = UNION { ToSet(Glob(input[k])) : k \in 1..Len(input) }
        /\ \A q \in Reorderings(input) : get_uri_list(q) = uri_list

\* Resolved from patterns that share a URI and stand in an order whose
\* expansions, one after the other, are not sorted.
C11_Witness ==
    /\ JustResolved
    /\ Len(AppendAll(input)) > Cardinality(ToSet(AppendAll(input)))
    /\ \E j \in 1..(Len(AppendAll(input)) - 1) :
          StrLess(Text(AppendAll(input)[j + 1]), Text(AppendAll(input)[j]))
    /\ Len(uri_list) >= 3

(***************************************************************************)
(* Concurrent workers. The body of the loop of scan_them_all, lines 53-71, *)
(* is run by MaxWorkers workers over one index store: each takes a source  *)
(* no worker has taken yet, in any order, and runs the body on it, its     *)
(* steps interleaved with the other workers' steps. An exception that      *)
(* leaves the body ends the worker; the others go on.                      *)
(***************************************************************************)
Pooled == status = "running" /\ pc = "scan"

\* A worker takes a source.
Take(w) ==
    /\ Pooled
    /\ worker[w] = Resting
    /\ \E fp \in ToSet(uri_list) \ taken :
          /\ taken' = taken \cup {fp}
          /\ worker' = [worker EXCEPT ![w] = Busy("exists", fp)]
    /\ UNCHANGED << params, history, status, pc, uri_list, i, files, dirs, handle,
                    json_data, opens, written, log, exc, fp_json_list >>

\* json_dataset_dir line 32, read on line 53: fp.exists().
DatasetDirExists(w) ==
    /\ Pooled
    /\ worker[w].at = "exists" /\ worker[w].exc = "none"
    /\ worker' = [worker EXCEPT ![w].at =
                     IF json_dataset_dir \in dirs THEN "parent" ELSE "mkdir"]
    /\ UNCHANGED << taken, params, history, status, pc, uri_list, i, files, dirs, handle,
                    json_data, opens, written, log, exc, fp_json_list >>

\* json_dataset_dir line 33: fp.mkdir(parents=True), without exist_ok: it raises
\* FileExistsError when the directory has come to exist since line 32.
DatasetDirMkdir(w) ==
    /\ Pooled
    /\ worker[w].at = "mkdir" /\ worker[w].exc = "none"
    /\ IF json_dataset_dir \in dirs
       THEN /\ worker' = [worker EXCEPT ![w].exc = "FileExistsError"]
            /\ dirs' = dirs
       ELSE /\ worker' = [worker EXCEPT ![w].at = "parent"]
            /\ dirs' = dirs \cup Ancestors(json_dataset_dir)
    /\ UNCHANGED << taken, params, history, status, pc, uri_list, i, files, handle,
                    json_data, opens, written, log, exc, fp_json_list >>

\* scan_them_all line 54: fp_json.parent.mkdir(parents=True, exist_ok=True).
ParentMkdir(w) ==
    /\ Pooled
    /\ worker[w].at = "parent" /\ worker[w].exc = "none"
    /\ dirs' = dirs \cup Ancestors(Parent(fp_json(worker[w].fp)))
    /\ worker' = [worker EXCEPT ![w].at = "check"]
    /\ UNCHANGED << taken, params, history, status, pc, uri_list, i, files, handle,
                    json_data, opens, written, log, exc, fp_json_list >>

\* scan_them_all lines 56-60: the cache test; a hit ends the worker's unit.
WorkerCheck(w) ==
    /\ Pooled
    /\ worker[w].at = "check" /\ worker[w].exc = "none"
    /\ worker' = [worker EXCEPT ![w] =
                     IF CacheHit(files, worker[w].fp, force_scan)
                     THEN Resting ELSE Busy("open", worker[w].fp)]
    /\ UNCHANGED << taken, params, history, status, pc, uri_list, i, files, dirs, handle,
                    json_data, opens, written, log, exc, fp_json_list >>

\* scan_them_all lines 61-67: open and index the source.
WorkerTranslate(w) ==
    /\ Pooled
    /\ worker[w].at = "open" /\ worker[w].exc = "none"
    /\ LET fp == worker[w].fp IN
        worker' = [worker EXCEPT ![w] =
                     CASE kind[fp] = "corrupt" -> Resting
                       [] kind[fp] = "noopen" -> Dead("open", fp, "OSError")
                       [] kind[fp] = "bug" -> Dead("open", fp, "Exception")
                       [] OTHER -> Busy("save", fp)]
    /\ UNCHANGED << taken, params, history, status, pc, uri_list, i, files, dirs, handle,
                    json_data, opens, written, log, exc, fp_json_list >>

\* scan_them_all lines 69-70: fp_json.open("w").
WorkerSaveOpen(w) ==
    /\ Pooled
    /\ worker[w].at = "save" /\ worker[w].exc = "none"
    /\ files' = [files EXCEPT ![fp_json(worker[w].fp)] = Partial]
    /\ worker' = [worker EXCEPT ![w].at = "dump"]
    /\ UNCHANGED << taken, params, history, status, pc, uri_list, i, dirs, handle,
                    json_data, opens, written, log, exc, fp_json_list >>

\* scan_them_all line 71: json.dump of the worker's index; the unit is over.
WorkerJsonDump(w) ==
    /\ Pooled
    /\ worker[w].at = "dump" /\ worker[w].exc = "none"
    /\ files' = [files EXCEPT ![fp_json(worker[w].fp)] = Complete(worker[w].fp)]
    /\ worker' = [worker EXCEPT ![w] = Resting]
    /\ UNCHANGED << taken, params, history, status, pc, uri_list, i, dirs, handle,
                    json_data, opens, written, log, exc, fp_json_list >>

\* Every source has been taken and every worker has ended its unit or died.
AllUnitsOver ==
    /\ taken = ToSet(uri_list)
    /\ \A w \in Workers : worker[w] = Resting \/ worker[w].exc # "none"

\* The workers are joined: the run goes on to consolidate, or fails with the
\* exception of a worker.
JoinWorkers ==
    /\ Pooled
    /\ AllUnitsOver
    /\ i' = Len(uri_list) + 1
    /\ IF \E w \in Workers : worker[w].exc # "none"
       THEN /\ status' = "failed"
            /\ exc' = (CHOOSE e \in { worker[w].exc : w \in Workers } : e # "none")
            /\ pc' = pc
       ELSE /\ pc' = "consolidate"
            /\ UNCHANGED << status, exc >>
    /\ UNCHANGED << pool, params, history, uri_list, files, dirs, handle,
                    json_data, opens, written, log, fp_json_list >>

WorkersNext ==
    \/ \E f \in BOOLEAN, k \in KindChoices : StartRun(f, k)
    \/ Resolve
    \/ \E w \in Workers : Take(w)
    \/ \E w \in Workers : DatasetDirExists(w)
    \/ \E w \in Workers : DatasetDirMkdir(w)
    \/ \E w \in Workers : ParentMkdir(w)
    \/ \E w \in Workers : WorkerCheck(w)
    \/ \E w \in Workers : WorkerTranslate(w)
    \/ \E w \in Workers : WorkerSaveOpen(w)
    \/ \E w \in Workers : WorkerJsonDump(w)
    \/ JoinWorkers
    \/ Consolidate

WorkersSpec == Init /\ [][WorkersNext]_vars

\* C12: no worker fails with an already-exists error while the workers create the
\* dataset directory and the parent directories of their artifacts.
C12_MkdirNeverFails ==
    \A w \in Workers : worker[w].exc # "FileExistsError"

\* C15: when the workers have run the unit of every source to its end, each
\* source indexing or failing with an I/O error and no worker dying, the index
\* store is the one the sequential pass over the sorted list leaves.
C15_OrderIndependent ==
    ( /\ status \in {"running", "done"}
      /\ pc \in {"scan", "consolidate", "end"}
      /\ uri_list # << >>
      /\ taken = ToSet(uri_list)
      /\ \A w \in Workers : worker[w] = Resting
      /\ \A u \in ToSet(uri_list) : kind[u] \in {"ok", "corrupt"} )
    => files = scan_them_all(store0, uri_list, kind, force_scan)

====
